---------------------------- MODULE Spec2Model ----------------------------
(***************************************************************************)
(* A model of dfvfs: the file system searcher (FindSpec and                *)
(* FileSystemSearcher, dfvfs/helpers/file_system_searcher.py), the AES     *)
(* decrypter (dfvfs/encryption/aes_decrypter.py), the analyzer helper      *)
(* registry (tests/analyzer/analyzer.py), the data range path              *)
(* specification (pyvfs/path/data_range_path_spec.py) and the selection of *)
(* a partition (pyvfs/lib/tsk_partition.py).                               *)
(*                                                                         *)
(* Strings are sequences of character codes (97 is "a", 65 is "A"), so     *)
(* that lower() and regular expression matching are computed, not assumed. *)
(* Python's None is the string "None" in a field that otherwise holds a    *)
(* string, and a record with given |-> FALSE in a field that holds a list. *)
(***************************************************************************)
EXTENDS Integers, Sequences, FiniteSets, TLC

VARIABLES
  find_spec,    \* SpecMatches: the FindSpec object under test
  constructed,  \* SpecMatches: that FindSpec as its constructor left it
  m_pc,         \* SpecMatches: "constructed", "initialized"
  m_call,       \* SpecMatches: the last Matches call: its arguments and result
  file_system,  \* SpecFind: the entry tree the searcher is bound to
  supplied,     \* SpecFind: the find_specs argument of Find, as the caller gave it
  find_specs,   \* SpecFind: the list object find_specs, holding the FindSpec objects
  frames,       \* SpecFind: the active _FindInFileEntry generators, innermost last
  yielded,      \* SpecFind: the path specs Find has yielded so far, in order
  raised,       \* SpecFind: the exception that left Find, or "None"
  caught,       \* SpecFind: the AccessErrors _FindInFileEntry has caught
  find_pc,      \* SpecFind: "call", "running", "done"
  tested,       \* SpecFind: the Matches calls Find has made so far, in order
  enumerated,   \* SpecFind: the entries whose sub file entries Find has asked for
  decrypter,    \* SpecAES: the AESDecrypter, or the arguments it refused
  aes_pc,       \* SpecAES: "new", "ready", "failed"
  position,     \* SpecAES: how much of the ciphertext the caller has passed on
  held_back,    \* SpecAES: the remaining encrypted data of the last Decrypt
  plaintext,    \* SpecAES: the decrypted data of all Decrypt calls, joined
  last_decrypt, \* SpecAES: the last Decrypt call: its argument and results
  analyzer_helpers,  \* SpecAnalyzer: the registered helpers, in registration order
  last_registration, \* SpecAnalyzer: the newest registration, while nothing changed since
  registry_call,     \* SpecAnalyzer: the last RegisterHelper or DeregisterHelper call
  built_path_spec,         \* SpecPathSpec: the path specification built so far, root layer first
  path_spec_call,    \* SpecPathSpec: the last constructor call: its arguments and outcome
  tsk_volume,        \* SpecTSK: the TSK volume object
  tsk_path_spec,     \* SpecTSK: the path specification of the partition asked for
  tsk_result,        \* SpecTSK: what GetTSKVsPartByPathSpec returned
  tsk_pc             \* SpecTSK: "call", "returned"

vars == <<find_spec, constructed, m_pc, m_call, file_system, supplied, find_specs, frames,
          yielded, raised, caught, find_pc, tested, enumerated, decrypter,
          aes_pc, position,
          held_back, plaintext, last_decrypt, analyzer_helpers,
          last_registration, registry_call, built_path_spec, path_spec_call,
          tsk_volume, tsk_path_spec, tsk_result, tsk_pc>>

matches_vars == <<find_spec, constructed, m_pc, m_call>>
find_vars == <<file_system, supplied, find_specs, frames, yielded, raised, caught, find_pc, tested, enumerated>>
aes_vars == <<decrypter, aes_pc, position, held_back, plaintext, last_decrypt>>
analyzer_vars == <<analyzer_helpers, last_registration, registry_call>>
path_vars == <<built_path_spec, path_spec_call>>
tsk_vars == <<tsk_volume, tsk_path_spec, tsk_result, tsk_pc>>

-----------------------------------------------------------------------------
(* Bounds of the model. *)

\* Entries of an entry tree, the start entry included.
MaxEntries == 4
\* Find specifications in one Find call.
MaxFindSpecs == 2
\* Segments of a location or location_regex.
MaxSegments == 2
\* Analyzer helper objects.
MaxHelpers == 4
\* Layers of a path specification.
MaxLayers == 3
\* Parts of a TSK volume.
MaxParts == 3

-----------------------------------------------------------------------------
(* Strings. *)

ChrA == <<97>>
ChrB == <<98>>
ChrUpperA == <<65>>
EmptyString == <<>>

\* str.lower() on one character code: "A".."Z" to "a".."z".
LowerChar(c) == IF c >= 65 /\ c <= 90 THEN c + 32 ELSE c

\* str.lower()
Lower(s) == [i \in 1..Len(s) |-> LowerChar(s[i])]

(* Regular expressions, the fragment the inputs use: a literal character,  *)
(* "." (46), and a group "(" (40) ... ")" (41).                            *)

RECURSIVE ParenDepth(_, _, _)
\* The nesting depth after pattern[i..], or -1 once a ")" closes nothing.
ParenDepth(pattern, i, depth) ==
  IF depth < 0 THEN -1
  ELSE IF i > Len(pattern) THEN depth
  ELSE IF pattern[i] = 40 THEN ParenDepth(pattern, i + 1, depth + 1)
  ELSE IF pattern[i] = 41 THEN ParenDepth(pattern, i + 1, depth - 1)
  ELSE ParenDepth(pattern, i + 1, depth)

\* re.compile(pattern) raises sre_constants.error on unbalanced parentheses.
RegexCompiles(pattern) == ParenDepth(pattern, 1, 0) = 0

\* The pattern without its group parentheses.
StripGroups(pattern) == SelectSeq(pattern, LAMBDA c : c # 40 /\ c # 41)

\* compiled.match(name) for the pattern ^...$ under re.DOTALL | re.UNICODE,
\* and re.IGNORECASE when ignore_case.
RegexMatch(compiled, name) ==
  LET p == StripGroups(compiled.text) IN
  /\ Len(p) = Len(name)
  /\ \A i \in 1..Len(p) :
       \/ p[i] = 46
       \/ IF compiled.ignore_case
            THEN LowerChar(p[i]) = LowerChar(name[i])
            ELSE p[i] = name[i]

-----------------------------------------------------------------------------
(* FindSpec. *)

FileEntryTypes == {"device", "directory", "file", "link", "pipe", "socket"}

\* A location segment that is still a string.
StrSegment(s) == [compiled |-> FALSE, text |-> s, ignore_case |-> FALSE]

NoList == [given |-> FALSE, list |-> <<>>]
SomeList(l) == [given |-> TRUE, list |-> l]

\* FindSpec.__init__, for a location or location_regex given as a list.
\* location and location_regex are not both given (that raises ValueError).
NewFindSpec(file_entry_types, is_allocated, location, location_regex, case_sensitive) ==
  [file_entry_types |-> file_entry_types,
   is_allocated |-> is_allocated,
   is_case_sensitive |-> case_sensitive,
   is_regex |-> IF location.given THEN "False"
                ELSE IF location_regex.given THEN "True" ELSE "None",
   location_segments |->
     IF location.given
       THEN SomeList([i \in 1..Len(location.list) |-> StrSegment(location.list[i])])
     ELSE IF location_regex.given
       THEN SomeList([i \in 1..Len(location_regex.list) |->
                        StrSegment(location_regex.list[i])])
     ELSE NoList,
   number_of_location_segments |-> 0]

NoTypes == [given |-> FALSE, types |-> {}]

\* FindSpec(): every argument at its default.
DefaultFindSpec == NewFindSpec(NoTypes, "True", NoList, NoList, TRUE)

\* FindSpec.Initialize
Initialize(fs) ==
  IF fs.location_segments.given
    THEN [fs EXCEPT !.number_of_location_segments = Len(fs.location_segments.list)]
    ELSE fs

\* FindSpec.AtMaximumDepth
AtMaximumDepth(fs, search_depth) ==
  /\ fs.location_segments.given
  /\ search_depth = fs.number_of_location_segments

\* FindSpec._CheckIsDevice .. _CheckIsSocket, for one entry type.
CheckIsType(fs, file_entry, type) ==
  IF fs.file_entry_types.given /\ type \notin fs.file_entry_types.types
    THEN FALSE
    ELSE type \in file_entry.types

\* FindSpec._CheckFileEntryType
CheckFileEntryType(fs, file_entry) ==
  \/ CheckIsType(fs, file_entry, "device")
  \/ CheckIsType(fs, file_entry, "directory")
  \/ CheckIsType(fs, file_entry, "file")
  \/ CheckIsType(fs, file_entry, "link")
  \/ CheckIsType(fs, file_entry, "pipe")
  \/ CheckIsType(fs, file_entry, "socket")

BoolStr(b) == IF b THEN "True" ELSE "False"

\* FindSpec._CheckIsAllocated
CheckIsAllocated(fs, file_entry) ==
  /\ fs.is_allocated # "None"
  /\ fs.is_allocated = BoolStr(file_entry.allocated)

\* SegmentAt that leaves a literal segment as it is written.
SegmentAt_KeepsCase(fs, search_depth) ==
  LET segment_name == fs.location_segments.list[search_depth] IN
  IF fs.is_regex = "True"
    THEN IF ~segment_name.compiled
           THEN IF RegexCompiles(segment_name.text)
                  THEN [error |-> FALSE,
                        segment |-> [compiled |-> TRUE, text |-> segment_name.text,
                                     ignore_case |-> ~fs.is_case_sensitive]]
                  ELSE [error |-> TRUE, segment |-> segment_name]
           ELSE [error |-> FALSE, segment |-> segment_name]
  ELSE [error |-> FALSE, segment |-> segment_name]

\* The segment Matches compares the name with at search_depth > 0, and
\* whether compiling it raised: lines 267-287.
SegmentAt(fs, search_depth) ==
  LET segment_name == fs.location_segments.list[search_depth] IN
  IF fs.is_regex = "True"
    THEN IF ~segment_name.compiled
           THEN IF RegexCompiles(segment_name.text)
                  THEN [error |-> FALSE,
                        segment |-> [compiled |-> TRUE, text |-> segment_name.text,
                                     ignore_case |-> ~fs.is_case_sensitive]]
                  ELSE [error |-> TRUE, segment |-> segment_name]
           ELSE [error |-> FALSE, segment |-> segment_name]
  ELSE IF ~fs.is_case_sensitive
    THEN [error |-> FALSE, segment |-> StrSegment(Lower(segment_name.text))]
  ELSE [error |-> FALSE, segment |-> segment_name]

\* A location check that compares the name and not the depth.
CheckLocation_AnyDepth(fs, file_entry, search_depth) ==
  IF ~fs.location_segments.given THEN [passes |-> TRUE, find_spec |-> fs]
  ELSE IF search_depth < 0 \/ search_depth > fs.number_of_location_segments
    THEN [passes |-> FALSE, find_spec |-> fs]
  ELSE IF search_depth = 0
    THEN [passes |-> EmptyString = file_entry.name, find_spec |-> fs]
  ELSE
    LET at == SegmentAt(fs, search_depth)
        stored == [fs EXCEPT !.location_segments.list[search_depth] = at.segment]
    IN
    IF at.error THEN [passes |-> FALSE, find_spec |-> fs]
    ELSE [passes |->
            IF fs.is_regex = "True"
              THEN RegexMatch(at.segment, file_entry.name)
            ELSE IF fs.is_case_sensitive
              THEN at.segment.text = file_entry.name
            ELSE at.segment.text = Lower(file_entry.name),
          find_spec |-> stored]

\* The location check of Matches, lines 258-301: whether it passes, and the
\* FindSpec with the segment stored back.
CheckLocation(fs, file_entry, search_depth) ==
  IF ~fs.location_segments.given THEN [passes |-> TRUE, find_spec |-> fs]
  ELSE IF search_depth < 0 \/ search_depth > fs.number_of_location_segments
    THEN [passes |-> FALSE, find_spec |-> fs]
  ELSE IF search_depth = 0
    THEN [passes |-> /\ EmptyString = file_entry.name
                     /\ search_depth = fs.number_of_location_segments,
          find_spec |-> fs]
  ELSE
    LET at == SegmentAt(fs, search_depth)
        stored == [fs EXCEPT !.location_segments.list[search_depth] = at.segment]
    IN
    IF at.error THEN [passes |-> FALSE, find_spec |-> fs]
    ELSE [passes |->
            /\ IF fs.is_regex = "True"
                 THEN RegexMatch(at.segment, file_entry.name)
               ELSE IF fs.is_case_sensitive
                 THEN at.segment.text = file_entry.name
               ELSE at.segment.text = Lower(file_entry.name)
            /\ search_depth = fs.number_of_location_segments,
          find_spec |-> stored]

\* FindSpec.Matches: the value returned, and the FindSpec as the call leaves it.
Matches(fs, file_entry, search_depth) ==
  LET location == CheckLocation(fs, file_entry, search_depth) IN
  [result |-> /\ location.passes
              /\ CheckFileEntryType(fs, file_entry)
              /\ CheckIsAllocated(fs, file_entry),
   find_spec |-> location.find_spec]

-----------------------------------------------------------------------------
(* The file entries of a file system: a tree.  Entry 1 is the start entry  *)
(* of Find (the root, or the mount point); parent[e] is the entry whose    *)
(* sub_file_entries yields e, 0 for entry 1.  sub_file_entries yields the  *)
(* children in ascending order.  If denied is an entry, enumerating its    *)
(* sub_file_entries raises AccessError once denied_after children have     *)
(* been yielded.                                                           *)

\* file_entry.sub_file_entries, as a list.
SubFileEntries(tree, e) ==
  LET RECURSIVE From(_)
      From(c) == IF c > tree.n THEN <<>>
                 ELSE IF tree.parent[c] = e THEN <<c>> \o From(c + 1)
                 ELSE From(c + 1)
  IN From(1)

\* The file entry object of entry e: what Matches reads of it.  An entry
\* with sub entries is a directory, any other a file.
FileEntry(tree, e) ==
  [name |-> tree.name[e],
   allocated |-> tree.allocated[e],
   types |-> IF e \in tree.directories THEN {"directory"} ELSE {"file"}]

-----------------------------------------------------------------------------
(* FileSystemSearcher.  A Find in progress is the record                   *)
(*   [find_specs, frames, yielded, raised, caught, pc]                     *)
(* and each step of the generators is a function from it to the next one.  *)
(* A frame is one active _FindInFileEntry generator; its find_specs and    *)
(* sub_find_specs refer to the FindSpec objects by their index in the list *)
(* given to Find.                                                          *)

NewFrame(file_entry, refs, search_depth) ==
  [file_entry |-> file_entry, find_specs |-> refs, search_depth |-> search_depth,
   sub_find_specs |-> <<>>, at |-> "find_specs", next |-> 0]

\* FileSystemSearcher.Find up to its call of _FindInFileEntry: lines 388-399.
FindPrologue(given_find_specs) ==
  IF ~given_find_specs.given
    \* None.append: 'NoneType' object has no attribute 'append'
    THEN [find_specs |-> <<>>, frames |-> <<>>, yielded |-> <<>>,
          raised |-> "AttributeError", caught |-> 0, pc |-> "done",
          tested |-> <<>>, enumerated |-> <<>>]
    ELSE
      LET list == IF given_find_specs.list = <<>> THEN <<DefaultFindSpec>>
                  ELSE given_find_specs.list
          initialized == [i \in 1..Len(list) |-> Initialize(list[i])]
      IN [find_specs |-> initialized,
          frames |-> <<NewFrame(1, [i \in 1..Len(list) |-> i], 0)>>,
          yielded |-> <<>>, raised |-> "None", caught |-> 0, pc |-> "running",
          tested |-> <<>>, enumerated |-> <<>>]

\* TestFindSpec with a break after the first match: an entry is yielded once.
TestFindSpec_FirstMatchOnly(acc, ref, tree, e, search_depth) ==
  LET m == Matches(acc.find_specs[ref], FileEntry(tree, e), search_depth) IN
  [find_specs |-> [acc.find_specs EXCEPT ![ref] = m.find_spec],
   tested |-> Append(acc.tested, [file_entry |-> e, find_spec |-> ref, search_depth |-> search_depth]),
   yields |-> IF m.result /\ acc.yields = <<>>
                THEN Append(acc.yields, [path_spec |-> e, find_spec |-> ref])
                ELSE acc.yields,
   sub_find_specs |-> IF ~AtMaximumDepth(m.find_spec, search_depth)
                        THEN Append(acc.sub_find_specs, ref)
                        ELSE acc.sub_find_specs]

\* TestFindSpec with the matches collected newest first.
TestFindSpec_NewestFirst(acc, ref, tree, e, search_depth) ==
  LET m == Matches(acc.find_specs[ref], FileEntry(tree, e), search_depth) IN
  [find_specs |-> [acc.find_specs EXCEPT ![ref] = m.find_spec],
   tested |-> Append(acc.tested, [file_entry |-> e, find_spec |-> ref, search_depth |-> search_depth]),
   yields |-> IF m.result
                THEN <<[path_spec |-> e, find_spec |-> ref]>> \o acc.yields
                ELSE acc.yields,
   sub_find_specs |-> IF ~AtMaximumDepth(m.find_spec, search_depth)
                        THEN Append(acc.sub_find_specs, ref)
                        ELSE acc.sub_find_specs]

\* TestFindSpec that keeps every FindSpec for the sub file entries.
TestFindSpec_KeepsAll(acc, ref, tree, e, search_depth) ==
  LET m == Matches(acc.find_specs[ref], FileEntry(tree, e), search_depth) IN
  [find_specs |-> [acc.find_specs EXCEPT ![ref] = m.find_spec],
   tested |-> Append(acc.tested, [file_entry |-> e, find_spec |-> ref, search_depth |-> search_depth]),
   yields |-> IF m.result
                THEN Append(acc.yields, [path_spec |-> e, find_spec |-> ref])
                ELSE acc.yields,
   sub_find_specs |-> Append(acc.sub_find_specs, ref)]

\* One pass of the loop over find_specs, lines 358-362, for the FindSpec ref:
\* acc holds the FindSpec objects, the path specs yielded and sub_find_specs.
TestFindSpec(acc, ref, tree, e, search_depth) ==
  LET m == Matches(acc.find_specs[ref], FileEntry(tree, e), search_depth) IN
  [find_specs |-> [acc.find_specs EXCEPT ![ref] = m.find_spec],
   tested |-> Append(acc.tested, [file_entry |-> e, find_spec |-> ref, search_depth |-> search_depth]),
   yields |-> IF m.result
                THEN Append(acc.yields, [path_spec |-> e, find_spec |-> ref])
                ELSE acc.yields,
   sub_find_specs |-> IF ~AtMaximumDepth(m.find_spec, search_depth)
                        THEN Append(acc.sub_find_specs, ref)
                        ELSE acc.sub_find_specs]

RECURSIVE TestFindSpecs(_, _, _, _, _, _)
\* The loop over find_specs, lines 357-362, from its i-th pass on.
TestFindSpecs(acc, refs, i, tree, e, search_depth) ==
  IF i > Len(refs) THEN acc
  ELSE TestFindSpecs(TestFindSpec(acc, refs[i], tree, e, search_depth),
                     refs, i + 1, tree, e, search_depth)

\* A generator returns: its frame is gone, and Find is done with the last one.
Return(find) ==
  LET rest == SubSeq(find.frames, 1, Len(find.frames) - 1) IN
  [find EXCEPT !.frames = rest, !.pc = IF rest = <<>> THEN "done" ELSE "running"]

\* The innermost generator up to its loop over the sub file entries: lines 357-367.
FindInFileEntryStep(find, tree) ==
  LET top == Len(find.frames)
      frame == find.frames[top]
      loop == TestFindSpecs([find_specs |-> find.find_specs, tested |-> find.tested,
                             yields |-> <<>>, sub_find_specs |-> <<>>],
                            frame.find_specs, 1, tree, frame.file_entry,
                            frame.search_depth)
      looped == [find EXCEPT !.find_specs = loop.find_specs,
                             !.tested = loop.tested,
                             !.yielded = find.yielded \o loop.yields]
  IN IF loop.sub_find_specs = <<>>
       THEN Return(looped)
       ELSE [looped EXCEPT !.frames[top] =
               [frame EXCEPT !.sub_find_specs = loop.sub_find_specs,
                             !.search_depth = frame.search_depth + 1,
                             !.at = "sub_file_entries"],
                           !.enumerated =
               Append(find.enumerated,
                      [file_entry |-> frame.file_entry, find_specs |-> frame.find_specs,
                       search_depth |-> frame.search_depth])]

\* CatchAccessError without the except clause: the error leaves Find.
CatchAccessError_Propagates(find) ==
  [find EXCEPT !.frames = <<>>, !.raised = "AccessError", !.pc = "done",
               !.caught = find.caught + 1]

\* The except clause of lines 373-374: the generator that was enumerating
\* ends, the error goes no further.
CatchAccessError(find) ==
  [Return(find) EXCEPT !.caught = find.caught + 1]

\* A loop over the sub file entries that recurses into the file entry
\* itself instead of the sub file entry.
SubFileEntryStep_IntoItself(find, tree) ==
  LET top == Len(find.frames)
      frame == find.frames[top]
      entries == SubFileEntries(tree, frame.file_entry)
  IN IF tree.denied = frame.file_entry /\ tree.denied_after = frame.next
       THEN CatchAccessError(find)
     ELSE IF frame.next < Len(entries)
       THEN [find EXCEPT !.frames =
               Append([find.frames EXCEPT ![top].next = frame.next + 1],
                      NewFrame(frame.file_entry, frame.sub_find_specs,
                               frame.search_depth))]
     ELSE Return(find)

\* The innermost generator asks for its next sub file entry: lines 368-374.
SubFileEntryStep(find, tree) ==
  LET top == Len(find.frames)
      frame == find.frames[top]
      entries == SubFileEntries(tree, frame.file_entry)
  IN IF tree.denied = frame.file_entry /\ tree.denied_after = frame.next
       THEN CatchAccessError(find)
     ELSE IF frame.next < Len(entries)
       THEN [find EXCEPT !.frames =
               Append([find.frames EXCEPT ![top].next = frame.next + 1],
                      NewFrame(entries[frame.next + 1], frame.sub_find_specs,
                               frame.search_depth))]
     ELSE Return(find)

-----------------------------------------------------------------------------
(* AESDecrypter.  Bytes are numbers 0..255.  The cipher context is that of *)
(* the cryptography package: its AES algorithm object gives block_size in  *)
(* bits.  The block cipher itself is a stand-in that keeps what matters    *)
(* here: a plaintext byte depends on its ciphertext byte, on the key, and, *)
(* but for ECB, on the block before (the initialization vector first).     *)

\* algorithms.AES.block_size: the size of a block in bits.
AESBlockSizeBits == 128
\* The bytes of an AES block.
AESBlockBytes == 16

EncryptionModes == {"cbc", "cfb", "ecb", "ofb"}

NoBytes == [given |-> FALSE, size |-> 0]
Bytes(n) == [given |-> TRUE, size |-> n]

\* "not key", "not initialization_vector": None or empty.
IsMissing(bytes) == ~bytes.given \/ bytes.size = 0

\* algorithms.AES(key) raises ValueError unless the key has 128, 192 or 256 bits.
ValidKeySize(key) == key.size \in {16, 24, 32}

\* ciphers.Cipher raises ValueError unless the initialization vector of a
\* CBC, CFB or OFB mode has the size of a block.
ValidModeFor(cipher_mode, initialization_vector) ==
  cipher_mode = "ecb" \/ initialization_vector.size = AESBlockBytes

\* AESDecrypter.__init__ with the initialization vector asked of every mode.
AESDecrypterInit_NoECBExemption(cipher_mode, initialization_vector, key) ==
  LET refused == [raised |-> "ValueError", cipher_mode |-> cipher_mode,
                  initialization_vector |-> initialization_vector, key |-> key,
                  fed |-> <<>>]
  IN IF IsMissing(key) THEN refused
     ELSE IF cipher_mode \notin EncryptionModes THEN refused
     ELSE IF IsMissing(initialization_vector) THEN refused
     ELSE IF ~ValidKeySize(key) THEN refused
     ELSE IF ~ValidModeFor(cipher_mode, initialization_vector) THEN refused
     ELSE [refused EXCEPT !.raised = "None"]

\* AESDecrypter.__init__: the decrypter, with the ciphertext its cipher
\* context has been fed (none yet), or the arguments and the error raised.
AESDecrypterInit(cipher_mode, initialization_vector, key) ==
  LET refused == [raised |-> "ValueError", cipher_mode |-> cipher_mode,
                  initialization_vector |-> initialization_vector, key |-> key,
                  fed |-> <<>>]
  IN IF IsMissing(key) THEN refused
     ELSE IF cipher_mode \notin EncryptionModes THEN refused
     ELSE IF cipher_mode # "ecb" /\ IsMissing(initialization_vector) THEN refused
     ELSE IF ~ValidKeySize(key) THEN refused
     ELSE IF ~ValidModeFor(cipher_mode, initialization_vector) THEN refused
     ELSE [refused EXCEPT !.raised = "None"]

\* The stand-in block cipher, bytewise: encryption and its inverse.
KeyByte(key) == (84 + key.size) % 256
EncryptByte(key, x) == (x * 5 + KeyByte(key)) % 256
DecryptByte(key, y) == ((y + 256 - KeyByte(key)) * 205) % 256

\* The initialization vector's i-th byte.
IVByte(i) == (73 + 3 * i) % 256

\* The byte the i-th byte of the ciphertext fed is chained with.
ChainByte(fed, i) == IF i <= AESBlockBytes THEN IVByte(i) ELSE fed[i - AESBlockBytes]

RECURSIVE KeyStreamByte(_, _)
\* OFB: the key stream is the initialization vector encrypted over and over.
KeyStreamByte(aes, i) ==
  IF i <= AESBlockBytes THEN EncryptByte(aes.key, IVByte(i))
  ELSE EncryptByte(aes.key, KeyStreamByte(aes, i - AESBlockBytes))

\* The plaintext of the i-th byte of the ciphertext fed to the cipher context.
PlainByte(aes, fed, i) ==
  IF aes.cipher_mode = "ecb" THEN DecryptByte(aes.key, fed[i])
  ELSE IF aes.cipher_mode = "cbc"
    THEN (DecryptByte(aes.key, fed[i]) + 256 - ChainByte(fed, i)) % 256
  ELSE IF aes.cipher_mode = "cfb"
    THEN (fed[i] + 256 - EncryptByte(aes.key, ChainByte(fed, i))) % 256
  ELSE (fed[i] + 256 - KeyStreamByte(aes, i)) % 256

\* How many of n bytes fed the cipher context has decrypted: the whole
\* blocks in ECB and CBC mode, every byte in CFB and OFB mode.
Decrypted(aes, n) ==
  IF aes.cipher_mode \in {"ecb", "cbc"} THEN n - (n % AESBlockBytes) ELSE n

\* self._cipher_context.update(data): the plaintext returned, and the
\* decrypter after it.
Update(aes, data) ==
  LET fed == aes.fed \o data
      from == Decrypted(aes, Len(aes.fed))
      to == Decrypted(aes, Len(fed))
  IN [data |-> [i \in 1..(to - from) |-> PlainByte(aes, fed, from + i)],
      decrypter |-> [aes EXCEPT !.fed = fed]]

\* AESDecrypter.Decrypt: lines 74-83.
Decrypt(aes, encrypted_data) ==
  LET length == Len(encrypted_data)
      index_split == -(length % AESBlockSizeBits)
      remaining_encrypted_data ==
        IF index_split # 0
          THEN SubSeq(encrypted_data, length + index_split + 1, length)
          ELSE <<>>
      to_decrypt ==
        IF index_split # 0
          THEN SubSeq(encrypted_data, 1, length + index_split)
          ELSE encrypted_data
      updated == Update(aes, to_decrypt)
  IN [decrypted_data |-> updated.data,
      remaining_encrypted_data |-> remaining_encrypted_data,
      decrypter |-> updated.decrypter]

-----------------------------------------------------------------------------
(* The analyzer helper registry: Analyzer.RegisterHelper and               *)
(* Analyzer.DeregisterHelper, as tests/analyzer/analyzer.py calls them.    *)
(* The registry maps a type indicator to one helper; it is kept here as    *)
(* the list of the registered helpers in registration order, so that one   *)
(* helper per type indicator is a property and not a matter of notation.   *)

\* The helper objects: 1 is the TestAnalyzerHelper of the test.
AnalyzerHelpers == 1..MaxHelpers

\* helper.type_indicator: helpers 1 and 2 are of one type, 3 and 4 of the next.
TypeIndicator(helper) == (helper + 1) \div 2

\* The type indicators registered in a list of helpers.
TypeIndicators(helpers) == {TypeIndicator(helpers[i]) : i \in 1..Len(helpers)}

\* A registration that replaces the helper of the type indicator.
RegisterHelper_Replaces(helpers, helper) ==
  [raised |-> "None",
   analyzer_helpers |-> Append(SelectSeq(helpers, LAMBDA h : TypeIndicator(h) # TypeIndicator(helper)), helper)]

\* Analyzer.RegisterHelper(helper)
RegisterHelper(helpers, helper) ==
  IF TypeIndicator(helper) \in TypeIndicators(helpers)
  THEN [raised |-> "KeyError", analyzer_helpers |-> helpers]
  ELSE [raised |-> "None", analyzer_helpers |-> Append(helpers, helper)]

\* Analyzer.DeregisterHelper(helper)
DeregisterHelper(helpers, helper) ==
  IF TypeIndicator(helper) \notin TypeIndicators(helpers)
  THEN [raised |-> "KeyError", analyzer_helpers |-> helpers]
  ELSE [raised |-> "None",
        analyzer_helpers |-> SelectSeq(helpers, LAMBDA h : TypeIndicator(h) # TypeIndicator(helper))]

NoRegistration == [type_indicator |-> 0, count |-> 0]

NoRegistryCall == [op |-> "None", helper |-> 0, raised |-> "None", before |-> <<>>, registration |-> NoRegistration]

AnalyzerIdle ==
  /\ analyzer_helpers = <<>>
  /\ last_registration = NoRegistration
  /\ registry_call = NoRegistryCall

-----------------------------------------------------------------------------
(* Path specifications: pyvfs/path/data_range_path_spec.py and its base    *)
(* class path_spec.PathSpec.  A path specification owns its parent, so it  *)
(* is kept as the list of its layers, root first: the parent of an object  *)
(* is the list without its last layer, and None is the empty list.         *)

NoParent == <<>>

\* The type indicators whose path specifications have no parent.
ParentlessTypeIndicators == {"OS"}

\* path_spec.PathSpec.__init__(parent=parent) of a class with the type
\* indicator given.
PathSpecInit(type_indicator, parent) ==
  IF (type_indicator \in ParentlessTypeIndicators) # (parent = NoParent)
  THEN [raised |-> "ValueError", object |-> NoParent]
  ELSE [raised |-> "None",
        object |-> Append(parent, [type_indicator |-> type_indicator, range_offset |-> 0, range_size |-> 0])]

\* A constructor that stores the parent itself and never calls the base class.
DataRangePathSpecInit_WithoutSuper(range_offset, range_size, parent) ==
  [raised |-> "None",
   object |-> Append(parent, [type_indicator |-> "DATA_RANGE", range_offset |-> range_offset, range_size |-> range_size])]

\* DataRangePathSpec(range_offset, range_size, parent): lines 36-38.
DataRangePathSpecInit(range_offset, range_size, parent) ==
  LET super == PathSpecInit("DATA_RANGE", parent) IN
  IF super.raised # "None" THEN super
  ELSE [raised |-> "None",
        object |-> [super.object EXCEPT ![Len(super.object)].range_offset = range_offset,
                                        ![Len(super.object)].range_size = range_size]]

NoPathSpecCall == [class |-> "None", range_offset |-> 0, range_size |-> 0, parent |-> NoParent, raised |-> "None"]

PathSpecIdle ==
  /\ built_path_spec = NoParent
  /\ path_spec_call = NoPathSpecCall

-----------------------------------------------------------------------------
(* pyvfs/lib/tsk_partition.py.  An attribute that is None or missing is a  *)
(* record with given |-> FALSE.  A part is returned as its position in     *)
(* list(tsk_volume), from 1, and None as 0.                                *)

NoInt == [given |-> FALSE, value |-> 0]
SomeInt(v) == [given |-> TRUE, value |-> v]

NoLocation == [given |-> FALSE, text |-> <<>>]
SomeLocation(text) == [given |-> TRUE, text |-> text]

\* Whether a character code is one of "0".."9".
IsDigit(c) == c >= 48 /\ c <= 57

RECURSIVE DigitsValue(_)
\* The number a string of digits stands for.
DigitsValue(s) ==
  IF s = <<>> THEN 0
  ELSE 10 * DigitsValue(SubSeq(s, 1, Len(s) - 1)) + (s[Len(s)] - 48)

\* int(s, 10): digits, after a sign or not; anything else is a ValueError.
ParseInt(s) ==
  LET signed == s # <<>> /\ s[1] \in {43, 45}
      digits == IF signed THEN Tail(s) ELSE s
  IN IF digits = <<>> \/ \E i \in 1..Len(digits) : ~IsDigit(digits[i])
       THEN [error |-> TRUE, value |-> 0]
       ELSE [error |-> FALSE,
             value |-> IF signed /\ s[1] = 45 THEN 0 - DigitsValue(digits) ELSE DigitsValue(digits)]

\* location.startswith(u'/p')
StartsWithSlashP(text) == Len(text) >= 2 /\ text[1] = 47 /\ text[2] = 112

\* TSKVolumeGetBytesPerSector
TSKVolumeGetBytesPerSector(volume) ==
  IF volume.info.given THEN volume.info.value ELSE 512

\* TSKVsPartGetStartSector
TSKVsPartGetStartSector(tsk_vs_part) == tsk_vs_part.start

\* TSKVsPartIsAllocated
TSKVsPartIsAllocated(tsk_vs_part) ==
  tsk_vs_part.flags # "None" /\ tsk_vs_part.flags = "TSK_VS_PART_FLAG_ALLOC"

\* The partition index lines 40-49 take from the location, and the location
\* as they leave it.
PartitionIndexOfLocation(location) ==
  IF ~location.given THEN [location |-> location, partition_index |-> NoInt]
  ELSE
    LET parsed == IF StartsWithSlashP(location.text)
                    THEN ParseInt(SubSeq(location.text, 3, Len(location.text)))
                    ELSE [error |-> TRUE, value |-> 0]
        partition_index == IF parsed.error THEN NoInt ELSE SomeInt(parsed.value - 1)
    IN [location |-> IF ~partition_index.given \/ partition_index.value < 0
                       THEN NoLocation ELSE location,
        partition_index |-> partition_index]

\* Whether the start of a part, in bytes, is start_offset: lines 80-86.
StartsAt(tsk_vs_part, bytes_per_sector, start_offset) ==
  LET start_sector == TSKVsPartGetStartSector(tsk_vs_part) IN
  /\ start_offset.given
  /\ start_sector.given
  /\ start_sector.value * bytes_per_sector = start_offset.value

RECURSIVE PartLoop_CountsEveryPart(_, _, _, _, _)
\* The loop with the partition index counting every part, allocated or not.
PartLoop_CountsEveryPart(tsk_vs_part_list, wanted, bytes_per_sector, current_part_index, current_partition_index) ==
  IF current_part_index >= Len(tsk_vs_part_list)
    THEN [tsk_vs_part |-> Len(tsk_vs_part_list), current_part_index |-> current_part_index,
          current_partition_index |-> current_partition_index]
  ELSE
    LET tsk_vs_part == tsk_vs_part_list[current_part_index + 1]
        here == [tsk_vs_part |-> current_part_index + 1, current_part_index |-> current_part_index,
                 current_partition_index |-> current_partition_index]
    IN
    IF /\ wanted.partition_index.given
       /\ wanted.partition_index.value = current_partition_index
      THEN here
    ELSE IF wanted.part_index.given /\ wanted.part_index.value = current_part_index
      THEN [here EXCEPT !.current_partition_index = current_partition_index + 1]
    ELSE IF StartsAt(tsk_vs_part, bytes_per_sector, wanted.start_offset)
      THEN [here EXCEPT !.current_partition_index = current_partition_index + 1]
    ELSE PartLoop_CountsEveryPart(tsk_vs_part_list, wanted, bytes_per_sector,
                                  current_part_index + 1, current_partition_index + 1)

RECURSIVE PartLoop(_, _, _, _, _)
\* The loop over tsk_vs_part_list, lines 70-88, from the part at
\* current_part_index on: the part it stops at (the last one when it runs
\* to the end) and the two counters.
PartLoop(tsk_vs_part_list, wanted, bytes_per_sector, current_part_index, current_partition_index) ==
  IF current_part_index >= Len(tsk_vs_part_list)
    THEN [tsk_vs_part |-> Len(tsk_vs_part_list), current_part_index |-> current_part_index,
          current_partition_index |-> current_partition_index]
  ELSE
    LET tsk_vs_part == tsk_vs_part_list[current_part_index + 1]
        here == [tsk_vs_part |-> current_part_index + 1, current_part_index |-> current_part_index,
                 current_partition_index |-> current_partition_index]
        counted == IF TSKVsPartIsAllocated(tsk_vs_part)
                     THEN current_partition_index + 1 ELSE current_partition_index
    IN
    IF /\ TSKVsPartIsAllocated(tsk_vs_part)
       /\ wanted.partition_index.given
       /\ wanted.partition_index.value = current_partition_index
      THEN here
    ELSE IF wanted.part_index.given /\ wanted.part_index.value = current_part_index
      THEN [here EXCEPT !.current_partition_index = counted]
    ELSE IF StartsAt(tsk_vs_part, bytes_per_sector, wanted.start_offset)
      THEN [here EXCEPT !.current_partition_index = counted]
    ELSE PartLoop(tsk_vs_part_list, wanted, bytes_per_sector, current_part_index + 1, counted)

\* (None, None)
NoPart == [tsk_vs_part |-> 0, partition_index |-> NoInt]

\* GetTSKVsPartByPathSpec without the test of current_part_index after the loop.
GetTSKVsPartByPathSpec_LastPart(volume, path_spec) ==
  LET part_index == path_spec.part_index
      start_offset == path_spec.start_offset
      from_location == IF ~part_index.given
                         THEN PartitionIndexOfLocation(path_spec.location)
                         ELSE [location |-> path_spec.location, partition_index |-> NoInt]
      tsk_vs_part_list == volume.parts
      number_of_tsk_vs_parts == Len(tsk_vs_part_list)
      wanted == [part_index |-> part_index, partition_index |-> from_location.partition_index,
                 start_offset |-> start_offset]
      loop == PartLoop(tsk_vs_part_list, wanted, TSKVolumeGetBytesPerSector(volume), 0, 0)
  IN
  IF ~part_index.given /\ ~from_location.location.given /\ ~start_offset.given THEN NoPart
  ELSE IF number_of_tsk_vs_parts = 0 THEN NoPart
  ELSE IF part_index.given /\ (part_index.value < 0 \/ part_index.value >= number_of_tsk_vs_parts)
    THEN NoPart
  ELSE IF ~TSKVsPartIsAllocated(tsk_vs_part_list[loop.tsk_vs_part])
    THEN [tsk_vs_part |-> loop.tsk_vs_part, partition_index |-> NoInt]
  ELSE [tsk_vs_part |-> loop.tsk_vs_part, partition_index |-> SomeInt(loop.current_partition_index)]

\* GetTSKVsPartByPathSpec(tsk_volume, path_spec): lines 35-97.
GetTSKVsPartByPathSpec(volume, path_spec) ==
  LET part_index == path_spec.part_index
      start_offset == path_spec.start_offset
      from_location == IF ~part_index.given
                         THEN PartitionIndexOfLocation(path_spec.location)
                         ELSE [location |-> path_spec.location, partition_index |-> NoInt]
      tsk_vs_part_list == volume.parts
      number_of_tsk_vs_parts == Len(tsk_vs_part_list)
      wanted == [part_index |-> part_index, partition_index |-> from_location.partition_index,
                 start_offset |-> start_offset]
      loop == PartLoop(tsk_vs_part_list, wanted, TSKVolumeGetBytesPerSector(volume), 0, 0)
  IN
  IF ~part_index.given /\ ~from_location.location.given /\ ~start_offset.given THEN NoPart
  ELSE IF number_of_tsk_vs_parts = 0 THEN NoPart
  ELSE IF part_index.given /\ (part_index.value < 0 \/ part_index.value >= number_of_tsk_vs_parts)
    THEN NoPart
  ELSE IF loop.current_part_index >= number_of_tsk_vs_parts THEN NoPart
  ELSE IF ~TSKVsPartIsAllocated(tsk_vs_part_list[loop.tsk_vs_part])
    THEN [tsk_vs_part |-> loop.tsk_vs_part, partition_index |-> NoInt]
  ELSE [tsk_vs_part |-> loop.tsk_vs_part, partition_index |-> SomeInt(loop.current_partition_index)]

NoVolume == [info |-> NoInt, parts |-> <<>>]

NoTSKPathSpec == [location |-> NoLocation, part_index |-> NoInt, start_offset |-> NoInt]

TSKIdle ==
  /\ tsk_volume = NoVolume
  /\ tsk_path_spec = NoTSKPathSpec
  /\ tsk_result = NoPart
  /\ tsk_pc = "idle"

-----------------------------------------------------------------------------
(* SpecMatches: one FindSpec, constructed, initialized as Find does, and   *)
(* then asked Matches for entries and depths in any order, any number of   *)
(* times.                                                                  *)

\* Lists of at most n elements of S.
SeqsUpTo(S, n) == UNION {[1..k -> S] : k \in 0..n}

\* Location segments and entry names of SpecMatches.
LiteralSegments == {ChrA, ChrUpperA}
\* "a" and "(": the last one does not compile.
RegexSegments == {ChrA, <<40>>}
EntryNames == {EmptyString, ChrA, ChrUpperA, ChrB}

TypeFilters == {NoTypes, [given |-> TRUE, types |-> {"file"}], [given |-> TRUE, types |-> {"directory", "link"}]}

LocationArguments ==
  {[location |-> NoList, location_regex |-> NoList]}
    \cup {[location |-> SomeList(l), location_regex |-> NoList] : l \in SeqsUpTo(LiteralSegments, MaxSegments)}
    \cup {[location |-> NoList, location_regex |-> SomeList(l)] : l \in SeqsUpTo(RegexSegments, MaxSegments)}

\* The file entries Matches is asked about.
FileEntries ==
  [name : EntryNames, allocated : BOOLEAN, types : {{}, {"file"}}]

NoCall == [called |-> FALSE, file_entry |-> [name |-> EmptyString, allocated |-> TRUE, types |-> {}], search_depth |-> 0, stored |-> StrSegment(EmptyString), result |-> FALSE]

\* The segment a FindSpec holds for search_depth, if it holds one.
StoredSegment(fs, search_depth) ==
  IF fs.location_segments.given /\ search_depth \in 1..Len(fs.location_segments.list)
    THEN fs.location_segments.list[search_depth]
    ELSE StrSegment(EmptyString)

NoTree == [n |-> 0, parent |-> <<>>, name |-> <<>>, allocated |-> <<>>, directories |-> {}, denied |-> 0, denied_after |-> 0]

FindIdle ==
  /\ file_system = NoTree
  /\ supplied = NoList
  /\ find_specs = <<>>
  /\ frames = <<>>
  /\ yielded = <<>>
  /\ raised = "None"
  /\ caught = 0
  /\ find_pc = "idle"
  /\ tested = <<>>
  /\ enumerated = <<>>

NoDecrypter == [raised |-> "None", cipher_mode |-> "None", initialization_vector |-> NoBytes, key |-> NoBytes, fed |-> <<>>]

NoDecrypt == [called |-> FALSE, encrypted_data |-> <<>>, decrypted_data |-> <<>>, remaining_encrypted_data |-> <<>>]

AESIdle ==
  /\ decrypter = NoDecrypter
  /\ aes_pc = "idle"
  /\ position = 0
  /\ held_back = <<>>
  /\ plaintext = <<>>
  /\ last_decrypt = NoDecrypt

MatchesInit ==
  /\ \E types \in TypeFilters, is_allocated \in {"True", "False", "None"}, loc \in LocationArguments, case_sensitive \in BOOLEAN :
       find_spec = NewFindSpec(types, is_allocated, loc.location, loc.location_regex, case_sensitive)
  /\ constructed = find_spec
  /\ m_pc = "constructed"
  /\ m_call = NoCall
  /\ FindIdle
  /\ AESIdle
  /\ AnalyzerIdle
  /\ PathSpecIdle
  /\ TSKIdle

\* find_spec.Initialize(file_system), as Find does before any Matches.
InitializeCall ==
  /\ m_pc = "constructed"
  /\ find_spec' = Initialize(find_spec)
  /\ m_pc' = "initialized"
  /\ UNCHANGED <<constructed, m_call>>
  /\ UNCHANGED find_vars
  /\ UNCHANGED aes_vars
  /\ UNCHANGED analyzer_vars
  /\ UNCHANGED path_vars
  /\ UNCHANGED tsk_vars

\* find_spec.Matches(file_entry, search_depth)
MatchesCall ==
  /\ m_pc = "initialized"
  /\ \E file_entry \in FileEntries, search_depth \in 0..(MaxSegments + 1) :
       LET m == Matches(find_spec, file_entry, search_depth) IN
       /\ find_spec' = m.find_spec
       /\ m_call' = [called |-> TRUE, file_entry |-> file_entry, search_depth |-> search_depth,
                      stored |-> StoredSegment(find_spec, search_depth), result |-> m.result]
  /\ UNCHANGED <<constructed, m_pc>>
  /\ UNCHANGED find_vars
  /\ UNCHANGED aes_vars
  /\ UNCHANGED analyzer_vars
  /\ UNCHANGED path_vars
  /\ UNCHANGED tsk_vars

MatchesNext == InitializeCall \/ MatchesCall

SpecMatches == MatchesInit /\ [][MatchesNext]_vars

-----------------------------------------------------------------------------
(* SpecFind: one Find call of a FileSystemSearcher over an entry tree,     *)
(* consumed to its end.                                                    *)

RECURSIVE IsAncestorOrSelf(_, _, _)
\* Whether a is e or an entry above e, under the parent function.
IsAncestorOrSelf(parent, a, e) ==
  IF e = 0 THEN FALSE
  ELSE IF e = a THEN TRUE
  ELSE IsAncestorOrSelf(parent, a, parent[e])

\* The trees of MaxEntries entries, numbered in the order a depth-first
\* walk meets them: the parent of e is e - 1 or an entry above it.
TreeShapes ==
  {p \in [1..MaxEntries -> 0..(MaxEntries - 1)] :
     /\ p[1] = 0
     /\ \A e \in 2..MaxEntries : p[e] >= 1 /\ IsAncestorOrSelf(p, p[e], e - 1)}

\* The start entry has no name; every other entry is named "a" or "b".
TreeNames ==
  {nm \in [1..MaxEntries -> {EmptyString, ChrA, ChrB}] :
     /\ nm[1] = EmptyString
     /\ \A e \in 2..MaxEntries : nm[e] # EmptyString}

\* Every entry allocated, or all but one.
TreeAllocations ==
  {[e \in 1..MaxEntries |-> e # u] : u \in 0..MaxEntries}

AllAllocated == [e \in 1..MaxEntries |-> TRUE]

\* The entry trees of SpecFind: either an entry is unallocated, or the
\* sub file entries of an entry are denied at some point, or neither.
Tree(p, nm, al, denied, denied_after) ==
  [n |-> MaxEntries, parent |-> p, name |-> nm, allocated |-> al,
   directories |-> {p[e] : e \in 2..MaxEntries},
   denied |-> denied, denied_after |-> denied_after]

Trees ==
  {Tree(p, nm, al, 0, 0) : p \in TreeShapes, nm \in TreeNames, al \in TreeAllocations}
  \cup
  {t \in {Tree(p, nm, AllAllocated, d, k) :
            p \in TreeShapes, nm \in TreeNames, d \in 1..MaxEntries,
            k \in 0..(MaxEntries - 1)} :
      t.denied_after <= Len(SubFileEntries(t, t.denied))}

\* The FindSpecs the caller builds: FindSpec(), FindSpec(location=["a"]),
\* FindSpec(location=["a", "b"]) and FindSpec(location_regex=["(", "b"]).
FindSpecChoices ==
  {DefaultFindSpec,
   NewFindSpec(NoTypes, "True", SomeList(<<ChrA>>), NoList, TRUE),
   NewFindSpec(NoTypes, "True", SomeList(<<ChrA, ChrB>>), NoList, TRUE),
   NewFindSpec(NoTypes, "True", NoList, SomeList(<<<<40>>, ChrB>>), TRUE)}

\* The find_specs argument: None, or a list of at most MaxFindSpecs
\* FindSpecs, no two of them alike.
FindSpecsArguments ==
  {NoList} \cup
  {SomeList(l) : l \in {q \in SeqsUpTo(FindSpecChoices, MaxFindSpecs) :
                          \A i, j \in 1..Len(q) : q[i] = q[j] => i = j}}

MatchesIdle ==
  /\ find_spec = DefaultFindSpec
  /\ constructed = DefaultFindSpec
  /\ m_pc = "idle"
  /\ m_call = NoCall

FindInit ==
  /\ file_system \in Trees
  /\ supplied \in FindSpecsArguments
  /\ find_specs = supplied.list
  /\ frames = <<>>
  /\ yielded = <<>>
  /\ raised = "None"
  /\ caught = 0
  /\ find_pc = "call"
  /\ tested = <<>>
  /\ enumerated = <<>>
  /\ MatchesIdle
  /\ AESIdle
  /\ AnalyzerIdle
  /\ PathSpecIdle
  /\ TSKIdle

\* The Find in progress, as a record.
FindState ==
  [find_specs |-> find_specs, frames |-> frames, yielded |-> yielded,
   raised |-> raised, caught |-> caught, pc |-> find_pc,
   tested |-> tested, enumerated |-> enumerated]

BecomeFindState(find) ==
  /\ find_specs' = find.find_specs
  /\ frames' = find.frames
  /\ yielded' = find.yielded
  /\ raised' = find.raised
  /\ caught' = find.caught
  /\ find_pc' = find.pc
  /\ tested' = find.tested
  /\ enumerated' = find.enumerated
  /\ UNCHANGED <<file_system, supplied>>
  /\ UNCHANGED matches_vars
  /\ UNCHANGED aes_vars
  /\ UNCHANGED analyzer_vars
  /\ UNCHANGED path_vars
  /\ UNCHANGED tsk_vars

\* searcher.Find(find_specs), consumed: lines 388-399.
Find ==
  /\ find_pc = "call"
  /\ BecomeFindState(FindPrologue(supplied))

\* _FindInFileEntry tests its file entry: lines 357-367.
FindInFileEntry ==
  /\ find_pc = "running"
  /\ frames[Len(frames)].at = "find_specs"
  /\ BecomeFindState(FindInFileEntryStep(FindState, file_system))

\* _FindInFileEntry goes to its next sub file entry: lines 368-374.
SubFileEntry ==
  /\ find_pc = "running"
  /\ frames[Len(frames)].at = "sub_file_entries"
  /\ BecomeFindState(SubFileEntryStep(FindState, file_system))

FindNext == Find \/ FindInFileEntry \/ SubFileEntry

SpecFind == FindInit /\ [][FindNext]_vars

-----------------------------------------------------------------------------
(* A whole Find, as a function: what the claims compare a run with.        *)

\* The next step of the innermost generator.
FindStep(find, tree) ==
  IF find.frames[Len(find.frames)].at = "find_specs"
    THEN FindInFileEntryStep(find, tree)
    ELSE SubFileEntryStep(find, tree)

RECURSIVE RunToEnd(_, _)
RunToEnd(find, tree) ==
  IF find.pc = "done" THEN find ELSE RunToEnd(FindStep(find, tree), tree)

\* list(searcher.Find(argument)) over the tree.
RunFind(tree, argument) == RunToEnd(FindPrologue(argument), tree)

\* The FindSpec objects Find works with: the supplied ones, or the one it
\* appends to an empty list, initialized.
EffectiveFindSpecs == FindPrologue(supplied).find_specs

RECURSIVE Depth(_, _)
\* The search depth of entry e: 0 for the start entry.
Depth(tree, e) == IF tree.parent[e] = 0 THEN 0 ELSE 1 + Depth(tree, tree.parent[e])

RECURSIVE PathNames(_, _)
\* The names on the path from the start entry down to e, the start entry's
\* own left out.
PathNames(tree, e) ==
  IF tree.parent[e] = 0 THEN <<>>
  ELSE Append(PathNames(tree, tree.parent[e]), tree.name[e])

IsDescendant(tree, e, a) == e # a /\ IsAncestorOrSelf(tree.parent, a, e)

\* How often the path spec of e was yielded.
TimesYielded(e) == Cardinality({i \in 1..Len(yielded) : yielded[i].path_spec = e})

SegmentTexts(fs) ==
  [i \in 1..Len(fs.location_segments.list) |-> fs.location_segments.list[i].text]

IsLiteralCaseSensitive(fs) ==
  /\ fs.location_segments.given
  /\ fs.is_regex = "False"
  /\ fs.is_case_sensitive
  /\ Len(fs.location_segments.list) >= 1

\* C1: for a FindSpec with a literal, case-sensitive location s1..sn, n >= 1,
\* Find yields an entry for it only if the entry is at depth n and the names
\* on the path from the start entry down to it are s1..sn; and when that
\* FindSpec is the only one and exactly one entry has that path, and it is
\* allocated, exactly one path spec is yielded.
C1_YieldsOnlyTheLocationPath ==
  /\ \A i \in 1..Len(yielded) :
       LET fs == EffectiveFindSpecs[yielded[i].find_spec]
           e == yielded[i].path_spec
       IN IsLiteralCaseSensitive(fs) =>
            /\ Depth(file_system, e) = Len(fs.location_segments.list)
            /\ PathNames(file_system, e) = SegmentTexts(fs)
  /\ (/\ find_pc = "done"
      /\ file_system.denied = 0
      /\ Len(EffectiveFindSpecs) = 1
      /\ raised = "None"
      /\ IsLiteralCaseSensitive(EffectiveFindSpecs[1])
      /\ \E x \in 1..file_system.n :
           /\ file_system.allocated[x]
           /\ {e \in 1..file_system.n :
                 PathNames(file_system, e) = SegmentTexts(EffectiveFindSpecs[1])} = {x})
     => Len(yielded) = 1

\* C2: Find with no find specs (None, or an empty list) raises no error and
\* yields the path spec of every allocated entry reachable from the start
\* entry, as Find with one default FindSpec does.
C2_NoFindSpecsYieldsAllAllocated ==
  (find_pc = "done" /\ (~supplied.given \/ supplied.list = <<>>)) =>
     /\ raised = "None"
     /\ yielded = RunFind(file_system, SomeList(<<DefaultFindSpec>>)).yielded
     /\ file_system.denied = 0 =>
          \A e \in 1..file_system.n :
            TimesYielded(e) = IF file_system.allocated[e] THEN 1 ELSE 0

\* The same tree with no entries below E, and nothing denied.
WithoutSubFileEntries(tree, E) ==
  [tree EXCEPT !.parent = [e \in 1..tree.n |->
                             IF IsDescendant(tree, e, E) THEN -1 ELSE tree.parent[e]],
               !.denied = 0, !.denied_after = 0]

\* C3: when enumerating the sub file entries of an entry E raised an access
\* error, Find raises nothing and the path specs it yields for the entries
\* that are not below E are those, in that order, of a Find over the same
\* tree with no entries below E.
C3_AccessErrorPrunesOnlyItsSubtree ==
  (find_pc = "done" /\ caught > 0) =>
     /\ raised = "None"
     /\ SelectSeq(yielded,
                  LAMBDA y : ~IsDescendant(file_system, y.path_spec, file_system.denied))
          = RunFind(WithoutSubFileEntries(file_system, file_system.denied), supplied).yielded

\* C3's case: the error came after a sub file entry of E was yielded, and an
\* entry after E, not below it, was yielded as well.
C3_Witness ==
  /\ find_pc = "done"
  /\ caught > 0
  /\ \E i, j \in 1..Len(yielded) :
       /\ i < j
       /\ IsDescendant(file_system, yielded[i].path_spec, file_system.denied)
       /\ yielded[j].path_spec > file_system.denied
       /\ ~IsDescendant(file_system, yielded[j].path_spec, file_system.denied)

HasMalformedSegment(fs) ==
  /\ fs.is_regex = "True"
  /\ \E i \in 1..Len(fs.location_segments.list) :
       ~RegexCompiles(fs.location_segments.list[i].text)

\* C5: a FindSpec with a location_regex segment that is not a valid regular
\* expression contributes no yielded path spec, and no error is raised by it.
C5_MalformedRegexNeverMatches ==
  /\ raised # "sre_constants.error"
  /\ \A i \in 1..Len(yielded) :
       ~HasMalformedSegment(EffectiveFindSpecs[yielded[i].find_spec])

\* C6: in a Find without access error, an entry's path spec is yielded as
\* many times as there are FindSpecs (the supplied ones, or the one Find adds
\* to an empty list) whose Matches is true of the entry at its depth; an
\* entry no FindSpec matches is never yielded.
C6_YieldedOncePerMatchingFindSpec ==
  (find_pc = "done" /\ caught = 0) =>
     \A e \in 1..file_system.n :
       TimesYielded(e) =
         Cardinality({i \in 1..Len(EffectiveFindSpecs) :
                        Matches(EffectiveFindSpecs[i], FileEntry(file_system, e),
                                Depth(file_system, e)).result})

\* C6's case: a finished Find in which one entry was yielded twice, for two
\* FindSpecs, and another entry not at all.
C6_Witness ==
  /\ find_pc = "done"
  /\ file_system.denied = 0
  /\ \E e, u \in 1..file_system.n : TimesYielded(e) = 2 /\ TimesYielded(u) = 0
  /\ Len(supplied.list) = 2

\* Whether the traversal is through with e1 before it comes to e2: e1 is
\* above e2, or e1 and e2 lie in the subtrees of two sub file entries of one
\* entry, e1 in the earlier one.
Precedes(tree, e1, e2) ==
  \/ IsDescendant(tree, e2, e1)
  \/ \E c1, c2 \in 2..tree.n :
       /\ tree.parent[c1] = tree.parent[c2]
       /\ c1 < c2
       /\ IsAncestorOrSelf(tree.parent, c1, e1)
       /\ IsAncestorOrSelf(tree.parent, c2, e2)

\* C7: the yielded sequence is in depth-first pre-order: a yield for an entry
\* comes before every yield for an entry below it, the yields of one sub file
\* entry's subtree before those of the next one's, and the yields for one
\* entry in the order of the FindSpecs in the list.
C7_DepthFirstPreOrder ==
  \A i, j \in 1..Len(yielded) :
    i < j =>
      \/ /\ yielded[i].path_spec = yielded[j].path_spec
         /\ yielded[i].find_spec <= yielded[j].find_spec
      \/ Precedes(file_system, yielded[i].path_spec, yielded[j].path_spec)

\* C7's case: one entry yielded for two FindSpecs, then an entry below it,
\* then an entry of a later subtree.
C7_Witness ==
  /\ find_pc = "done"
  /\ \E i, j, k, l \in 1..Len(yielded) :
       /\ i < j /\ j < k /\ k < l
       /\ yielded[i].path_spec = yielded[j].path_spec
       /\ yielded[i].find_spec < yielded[j].find_spec
       /\ IsDescendant(file_system, yielded[k].path_spec, yielded[j].path_spec)
       /\ ~IsDescendant(file_system, yielded[l].path_spec, yielded[k].path_spec)
       /\ ~IsDescendant(file_system, yielded[k].path_spec, yielded[l].path_spec)
       /\ yielded[l].path_spec # yielded[k].path_spec

-----------------------------------------------------------------------------
(* SpecAES: an AESDecrypter is constructed and, if that succeeds, the      *)
(* caller passes a ciphertext through Decrypt in chunks, each time with    *)
(* the remaining encrypted data of the call before put in front.           *)

\* The ciphertext has CipherBlocks blocks.
CipherBlocks == 9
CipherLength == CipherBlocks * AESBlockBytes

\* The i-th byte of the ciphertext: no two bytes alike.
CipherByte(i) == (37 * i + 11) % 256
Ciphertext(from, to) == [i \in 1..(to - from) |-> CipherByte(from + i)]

\* The sizes of the chunks the caller reads.
ChunkSizes == {7, 16, 23, 121}

CipherModeArguments == {"None", "bogus"} \cup EncryptionModes
KeyArguments == {NoBytes, Bytes(0), Bytes(14), Bytes(16)}
IVArguments == {NoBytes, Bytes(0), Bytes(13), Bytes(16)}

AESInit ==
  /\ decrypter = NoDecrypter
  /\ aes_pc = "new"
  /\ position = 0
  /\ held_back = <<>>
  /\ plaintext = <<>>
  /\ last_decrypt = NoDecrypt
  /\ MatchesIdle
  /\ FindIdle
  /\ AnalyzerIdle
  /\ PathSpecIdle
  /\ TSKIdle

\* aes_decrypter.AESDecrypter(cipher_mode=..., initialization_vector=..., key=...)
NewAESDecrypter ==
  /\ aes_pc = "new"
  /\ \E cipher_mode \in CipherModeArguments, initialization_vector \in IVArguments, key \in KeyArguments :
       /\ decrypter' = AESDecrypterInit(cipher_mode, initialization_vector, key)
       /\ aes_pc' = IF decrypter'.raised = "None" THEN "ready" ELSE "failed"
  /\ UNCHANGED <<position, held_back, plaintext, last_decrypt>>
  /\ UNCHANGED matches_vars
  /\ UNCHANGED find_vars
  /\ UNCHANGED analyzer_vars
  /\ UNCHANGED path_vars
  /\ UNCHANGED tsk_vars

\* decrypter.Decrypt(held_back + the next chunk of the ciphertext)
DecryptCall ==
  /\ aes_pc = "ready"
  /\ \E size \in ChunkSizes :
       /\ position + size <= CipherLength
       /\ LET encrypted_data == held_back \o Ciphertext(position, position + size)
              result == Decrypt(decrypter, encrypted_data)
          IN /\ decrypter' = result.decrypter
             /\ held_back' = result.remaining_encrypted_data
             /\ plaintext' = plaintext \o result.decrypted_data
             /\ last_decrypt' = [called |-> TRUE, encrypted_data |-> encrypted_data,
                                 decrypted_data |-> result.decrypted_data,
                                 remaining_encrypted_data |-> result.remaining_encrypted_data]
       /\ position' = position + size
  /\ UNCHANGED <<aes_pc>>
  /\ UNCHANGED matches_vars
  /\ UNCHANGED find_vars
  /\ UNCHANGED analyzer_vars
  /\ UNCHANGED path_vars
  /\ UNCHANGED tsk_vars

AESNext == NewAESDecrypter \/ DecryptCall

SpecAES == AESInit /\ [][AESNext]_vars

\* The last n elements of s.
LastBytes(s, n) == SubSeq(s, Len(s) - n + 1, Len(s))

\* C8: for an input of L bytes Decrypt returns as leftover the last
\* L mod 16 bytes of the input, and L - (L mod 16) decrypted bytes.
C8_LeftoverIsInputModBlockSize ==
  last_decrypt.called =>
    LET L == Len(last_decrypt.encrypted_data) IN
    /\ last_decrypt.remaining_encrypted_data =
         LastBytes(last_decrypt.encrypted_data, L % AESBlockBytes)
    /\ Len(last_decrypt.decrypted_data) = L - (L % AESBlockBytes)

\* C9: once a ciphertext of whole blocks has gone through Decrypt in chunks,
\* each call given the leftover of the one before in front, the decrypted
\* outputs joined are what one Decrypt of the whole ciphertext by a fresh
\* decrypter returns, and the last leftover is empty.
C9_ChunkedDecryptEqualsWhole ==
  (aes_pc = "ready" /\ position > 0 /\ position % AESBlockBytes = 0) =>
     /\ held_back = <<>>
     /\ plaintext = Decrypt([decrypter EXCEPT !.fed = <<>>],
                            Ciphertext(0, position)).decrypted_data

\* C10: constructing an AESDecrypter raises ValueError if the key is
\* missing, if the cipher mode is none of CBC, CFB, ECB, OFB, or if the mode
\* is not ECB and no initialization vector is given; with mode ECB, a key
\* (of an AES key size) and no initialization vector it succeeds.
C10_ConstructionArguments ==
  aes_pc \in {"ready", "failed"} =>
    /\ (\/ IsMissing(decrypter.key)
        \/ decrypter.cipher_mode \notin {"cbc", "cfb", "ecb", "ofb"}
        \/ (decrypter.cipher_mode # "ecb" /\ IsMissing(decrypter.initialization_vector)))
       => (aes_pc = "failed" /\ decrypter.raised = "ValueError")
    /\ (/\ decrypter.cipher_mode = "ecb"
        /\ decrypter.key = Bytes(16)
        /\ IsMissing(decrypter.initialization_vector))
       => (aes_pc = "ready" /\ decrypter.raised = "None")

\* C10's case: an ECB decrypter made with a key and no initialization vector.
C10_Witness ==
  /\ aes_pc = "ready"
  /\ decrypter.cipher_mode = "ecb"
  /\ ~decrypter.initialization_vector.given
  /\ decrypter.key = Bytes(16)

\* C4: a FindSpec with is_allocated = None places no constraint on the
\* allocation state: Matches returns true whenever the location check and
\* the entry type check pass, for an allocated entry and an unallocated one.
C4_NoPreferenceIgnoresAllocation ==
  (m_call.called /\ find_spec.is_allocated = "None") =>
     m_call.result =
       (/\ CheckLocation(find_spec, m_call.file_entry, m_call.search_depth).passes
        /\ CheckFileEntryType(find_spec, m_call.file_entry))

-----------------------------------------------------------------------------
(* SpecAnalyzer: helpers are registered with and deregistered from the     *)
(* Analyzer in any order, any number of times.                             *)

AnalyzerInit ==
  /\ AnalyzerIdle
  /\ MatchesIdle
  /\ FindIdle
  /\ AESIdle
  /\ PathSpecIdle
  /\ TSKIdle

\* analyzer.Analyzer.RegisterHelper(helper)
RegisterHelperCall ==
  /\ \E helper \in AnalyzerHelpers :
       LET call == RegisterHelper(analyzer_helpers, helper) IN
       /\ analyzer_helpers' = call.analyzer_helpers
       /\ registry_call' = [op |-> "RegisterHelper", helper |-> helper, raised |-> call.raised,
                            before |-> analyzer_helpers, registration |-> last_registration]
       /\ last_registration' =
            IF call.raised = "None"
            THEN [type_indicator |-> TypeIndicator(helper), count |-> Len(analyzer_helpers)]
            ELSE last_registration
  /\ UNCHANGED matches_vars
  /\ UNCHANGED find_vars
  /\ UNCHANGED aes_vars
  /\ UNCHANGED path_vars
  /\ UNCHANGED tsk_vars

\* analyzer.Analyzer.DeregisterHelper(helper)
DeregisterHelperCall ==
  /\ \E helper \in AnalyzerHelpers :
       LET call == DeregisterHelper(analyzer_helpers, helper) IN
       /\ analyzer_helpers' = call.analyzer_helpers
       /\ registry_call' = [op |-> "DeregisterHelper", helper |-> helper, raised |-> call.raised,
                            before |-> analyzer_helpers, registration |-> last_registration]
       /\ last_registration' =
            IF call.raised = "None" THEN NoRegistration ELSE last_registration
  /\ UNCHANGED matches_vars
  /\ UNCHANGED find_vars
  /\ UNCHANGED aes_vars
  /\ UNCHANGED path_vars
  /\ UNCHANGED tsk_vars

AnalyzerNext == RegisterHelperCall \/ DeregisterHelperCall

SpecAnalyzer == AnalyzerInit /\ [][AnalyzerNext]_vars

\* C11: the registry holds at most one helper per type indicator.
\* Registering a helper whose type indicator is not registered adds that
\* helper and raises the count by one; registering one whose type indicator
\* is registered raises KeyError and leaves the registry as it was;
\* deregistering a registered helper takes exactly that helper out, and when
\* the registry has not changed since that helper was registered the count
\* is the one from before its registration.
C11_OneHelperPerTypeIndicator ==
  LET before == registry_call.before
      helper == registry_call.helper
      registered == TypeIndicator(helper) \in TypeIndicators(before)
  IN
  /\ \A i, j \in 1..Len(analyzer_helpers) :
       TypeIndicator(analyzer_helpers[i]) = TypeIndicator(analyzer_helpers[j]) => i = j
  /\ (registry_call.op = "RegisterHelper" /\ ~registered) =>
       /\ registry_call.raised = "None"
       /\ Len(analyzer_helpers) = Len(before) + 1
       /\ analyzer_helpers = Append(before, helper)
  /\ (registry_call.op = "RegisterHelper" /\ registered) =>
       /\ registry_call.raised = "KeyError"
       /\ analyzer_helpers = before
  /\ (registry_call.op = "DeregisterHelper" /\ registered) =>
       /\ registry_call.raised = "None"
       /\ Len(analyzer_helpers) = Len(before) - 1
       /\ TypeIndicator(helper) \notin TypeIndicators(analyzer_helpers)
       /\ registry_call.registration.type_indicator = TypeIndicator(helper) =>
            Len(analyzer_helpers) = registry_call.registration.count

\* C11's case: with one helper registered, a helper of another type was
\* registered and has now been deregistered.
C11_Witness ==
  /\ registry_call.op = "DeregisterHelper"
  /\ registry_call.raised = "None"
  /\ registry_call.registration.type_indicator = TypeIndicator(registry_call.helper)
  /\ registry_call.registration.count = 1
  /\ Len(analyzer_helpers) = 1

-----------------------------------------------------------------------------
(* SpecPathSpec: a caller builds a path specification layer by layer, and  *)
(* may leave out the parent or give one where none belongs.                *)

RangeOffsets == {0, 512}
RangeSizes == {512, 1024}

\* The parent argument: None or the path specification built so far.
ParentArguments == {NoParent, built_path_spec}

BuildInit ==
  /\ PathSpecIdle
  /\ AnalyzerIdle
  /\ MatchesIdle
  /\ FindIdle
  /\ AESIdle
  /\ TSKIdle

\* What a constructor call leaves behind: the new object if it raised nothing.
Constructed(class, range_offset, range_size, parent, call) ==
  /\ built_path_spec' = IF call.raised = "None" THEN call.object ELSE built_path_spec
  /\ path_spec_call' = [class |-> class, range_offset |-> range_offset, range_size |-> range_size,
                        parent |-> parent, raised |-> call.raised]
  /\ UNCHANGED analyzer_vars
  /\ UNCHANGED matches_vars
  /\ UNCHANGED find_vars
  /\ UNCHANGED aes_vars
  /\ UNCHANGED tsk_vars

\* A path specification of a parentless type is constructed.
NewOSPathSpec ==
  \E parent \in ParentArguments :
    /\ Len(parent) < MaxLayers
    /\ Constructed("OSPathSpec", 0, 0, parent, PathSpecInit("OS", parent))

\* data_range_path_spec.DataRangePathSpec(range_offset, range_size, parent)
NewDataRangePathSpec ==
  \E range_offset \in RangeOffsets, range_size \in RangeSizes, parent \in ParentArguments :
    /\ Len(parent) < MaxLayers
    /\ Constructed("DataRangePathSpec", range_offset, range_size, parent,
                   DataRangePathSpecInit(range_offset, range_size, parent))

BuildNext == NewOSPathSpec \/ NewDataRangePathSpec

SpecPathSpec == BuildInit /\ [][BuildNext]_vars

-----------------------------------------------------------------------------
(* Matches, one call at a time: claims checked under SpecMatches.          *)

\* Whether the last Matches call was about an entry that passes the entry
\* type check and the allocation check.
PassesTypeAndAllocation ==
  /\ CheckFileEntryType(find_spec, m_call.file_entry)
  /\ CheckIsAllocated(find_spec, m_call.file_entry)

\* C13: for a FindSpec with a location or location_regex of n segments,
\* Matches(entry, d) is false at every search depth d other than n.
C13_MatchesOnlyAtSegmentCount ==
  (/\ m_call.called
   /\ find_spec.location_segments.given
   /\ m_call.search_depth # Len(find_spec.location_segments.list))
  => ~m_call.result

\* C13's case: a FindSpec of two segments was asked about an entry at depth
\* 1 that passes the other checks and bears the name of the first segment.
C13_Witness ==
  /\ m_call.called
  /\ find_spec.is_regex = "False"
  /\ Len(find_spec.location_segments.list) = 2
  /\ m_call.search_depth = 1
  /\ PassesTypeAndAllocation
  /\ find_spec.location_segments.list[1].text = m_call.file_entry.name
  /\ ~m_call.result

-----------------------------------------------------------------------------
(* The traversal of Find: claims about which entries it tests and          *)
(* enumerates.                                                             *)

\* No FindSpec was tested twice against one entry.
TestedOnce ==
  \A i, j \in 1..Len(tested) :
    (tested[i].file_entry = tested[j].file_entry /\ tested[i].find_spec = tested[j].find_spec)
      => i = j

\* The sub file entries of no entry were asked for twice.
EnumeratedOnce ==
  \A i, j \in 1..Len(enumerated) :
    enumerated[i].file_entry = enumerated[j].file_entry => i = j

\* The entries a generator was made for: those tested, and the one the
\* innermost generator is about to test.
Entered ==
  {tested[i].file_entry : i \in 1..Len(tested)}
    \cup (IF frames # <<>> /\ frames[Len(frames)].at = "find_specs"
          THEN {frames[Len(frames)].file_entry} ELSE {})

\* A bound on the steps Find has left: four for every entry not entered
\* yet, two for the entry about to be tested, one for every generator that
\* has yet to return, one for the call of Find itself.
StepsLeft ==
  4 * (file_system.n - Cardinality(Entered))
    + (IF frames # <<>> /\ frames[Len(frames)].at = "find_specs" THEN 2 ELSE 0)
    + Len(frames)
    + (IF find_pc = "call" THEN 1 ELSE 0)

\* Find has a step to take: it is yet to be called, or its innermost
\* generator is at its loop over find_specs or over the sub file entries.
CanStep ==
  \/ find_pc = "call"
  \/ /\ find_pc = "running"
     /\ frames # <<>>
     /\ frames[Len(frames)].at \in {"find_specs", "sub_file_entries"}

\* C14: a Find over a finite entry tree with a finite list of FindSpecs
\* comes to its end: until it is done it can take a step, and every step
\* lowers StepsLeft, which is never negative.  It tests no FindSpec twice
\* against one entry and asks for the sub file entries of no entry twice.
C14_FindTerminates ==
  /\ [](TestedOnce /\ EnumeratedOnce)
  /\ [](StepsLeft >= 0)
  /\ [](find_pc # "done" => CanStep)
  /\ [][StepsLeft' < StepsLeft]_vars

\* C14's case: a Find with two FindSpecs has ended after testing both
\* against some entry and enumerating the entries under two entries.
C14_Witness ==
  /\ find_pc = "done"
  /\ raised = "None"
  /\ Len(find_specs) = 2
  /\ Len(enumerated) >= 2
  /\ \E i, j \in 1..Len(tested) :
       tested[i].file_entry = tested[j].file_entry /\ tested[i].find_spec # tested[j].find_spec

\* The segments of the location or location_regex of a FindSpec.
SegmentCount(fs) == Len(fs.location_segments.list)

\* C16: a FindSpec with a location of n segments is tested against no entry
\* deeper than n; the sub file entries of an entry at depth d are asked for
\* only when one of the FindSpecs tested against it has no location or has
\* other than d segments; and when every FindSpec has a location, no entry
\* deeper than the largest segment count is tested.
C16_PrunedAtMaximumDepth ==
  /\ \A i \in 1..Len(tested) :
       LET fs == find_specs[tested[i].find_spec] IN
       /\ tested[i].search_depth = Depth(file_system, tested[i].file_entry)
       /\ fs.location_segments.given => tested[i].search_depth <= SegmentCount(fs)
  /\ \A i \in 1..Len(enumerated) :
       /\ enumerated[i].search_depth = Depth(file_system, enumerated[i].file_entry)
       /\ \E k \in 1..Len(enumerated[i].find_specs) :
            LET fs == find_specs[enumerated[i].find_specs[k]] IN
            ~(fs.location_segments.given /\ enumerated[i].search_depth = SegmentCount(fs))
  /\ (\A ref \in 1..Len(find_specs) : find_specs[ref].location_segments.given) =>
       \A i \in 1..Len(tested) :
         \E ref \in 1..Len(find_specs) :
           Depth(file_system, tested[i].file_entry) <= SegmentCount(find_specs[ref])

\* C16's case: a Find with FindSpecs that all have a location has ended
\* after enumerating some sub file entries and without entering an entry
\* two levels down.
C16_Witness ==
  /\ find_pc = "done"
  /\ raised = "None"
  /\ caught = 0
  /\ find_specs # <<>>
  /\ \A ref \in 1..Len(find_specs) : find_specs[ref].location_segments.given
  /\ enumerated # <<>>
  /\ \E e \in 1..file_system.n : Depth(file_system, e) = 2 /\ e \notin Entered

-----------------------------------------------------------------------------
(* SpecTSK: GetTSKVsPartByPathSpec is called once with a volume and a path *)
(* specification.                                                          *)

\* The flags of a part.
PartFlags == {"TSK_VS_PART_FLAG_ALLOC", "TSK_VS_PART_FLAG_UNALLOC"}

\* The volumes: up to MaxParts parts, each allocated or not, the i-th
\* starting at sector 2 * i or without a start, in sectors of 512 bytes (no
\* info) or of 1024.
Volumes ==
  {[info |-> info,
    parts |-> [i \in 1..k |-> [flags |-> flags[i],
                               start |-> IF with_start[i] THEN SomeInt(2 * i) ELSE NoInt]]] :
     info \in {NoInt, SomeInt(1024)},
     k \in 0..MaxParts,
     flags \in [1..MaxParts -> PartFlags],
     with_start \in [1..MaxParts -> BOOLEAN]}

\* "/p" and the digit d.
SlashP(d) == <<47, 112, 48 + d>>

\* The locations: None, "/p0" .. "/p<MaxParts + 1>", "/p01", "/p10", "/p",
\* "/q1", "/pa" and "/p-1".
Locations ==
  {NoLocation}
    \cup {SomeLocation(SlashP(d)) : d \in 0..(MaxParts + 1)}
    \cup {SomeLocation(text) : text \in {<<47, 112, 48, 49>>, <<47, 112, 49, 48>>, <<47, 112>>,
                                         <<47, 113, 49>>, <<47, 112, 97>>, <<47, 112, 45, 49>>}}

PartIndexes == {NoInt} \cup {SomeInt(i) : i \in -1..MaxParts}

StartOffsets == {NoInt, SomeInt(1)} \cup {SomeInt(1024 * i) : i \in 1..MaxParts}

TSKInit ==
  /\ tsk_volume \in Volumes
  /\ tsk_path_spec \in [location : Locations, part_index : PartIndexes, start_offset : StartOffsets]
  /\ tsk_result = NoPart
  /\ tsk_pc = "call"
  /\ PathSpecIdle
  /\ AnalyzerIdle
  /\ MatchesIdle
  /\ FindIdle
  /\ AESIdle

\* tsk_partition.GetTSKVsPartByPathSpec(tsk_volume, path_spec)
GetTSKVsPart ==
  /\ tsk_pc = "call"
  /\ tsk_result' = GetTSKVsPartByPathSpec(tsk_volume, tsk_path_spec)
  /\ tsk_pc' = "returned"
  /\ UNCHANGED <<tsk_volume, tsk_path_spec>>
  /\ UNCHANGED path_vars
  /\ UNCHANGED analyzer_vars
  /\ UNCHANGED matches_vars
  /\ UNCHANGED find_vars
  /\ UNCHANGED aes_vars

TSKNext == GetTSKVsPart

SpecTSK == TSKInit /\ [][TSKNext]_vars

\* The allocated parts of the volume before its i-th part.
AllocatedBefore(i) ==
  Cardinality({j \in 1..(i - 1) : TSKVsPartIsAllocated(tsk_volume.parts[j])})

\* The N of a location "/p<N>" with N >= 1, and 0 for any other location.
LocationNumber ==
  LET location == tsk_path_spec.location
      number == IF location.given /\ StartsWithSlashP(location.text)
                  THEN ParseInt(SubSeq(location.text, 3, Len(location.text)))
                  ELSE [error |-> TRUE, value |-> 0]
  IN IF ~number.error /\ number.value >= 1 THEN number.value ELSE 0

\* Whether the i-th part is the one a criterion of the path specification
\* names: the part at part_index, one that starts at start_offset, or the
\* N-th allocated part for the location "/p<N>".
SatisfiesCriterion(i) ==
  \/ tsk_path_spec.part_index.given /\ tsk_path_spec.part_index.value = i - 1
  \/ StartsAt(tsk_volume.parts[i], TSKVolumeGetBytesPerSector(tsk_volume), tsk_path_spec.start_offset)
  \/ /\ LocationNumber >= 1
     /\ TSKVsPartIsAllocated(tsk_volume.parts[i])
     /\ AllocatedBefore(i) = LocationNumber - 1

\* C15: GetTSKVsPartByPathSpec returns (None, None) when the path
\* specification has no part_index, no start_offset and no location "/p<N>"
\* with N >= 1, when part_index is outside [0, number of parts), when the
\* volume has no parts, and when no part satisfies a criterion.
C15_NoPartSelectable ==
  LET number_of_parts == Len(tsk_volume.parts)
      part_index == tsk_path_spec.part_index
  IN
  (/\ tsk_pc = "returned"
   /\ \/ ~part_index.given /\ ~tsk_path_spec.start_offset.given /\ LocationNumber = 0
      \/ part_index.given /\ (part_index.value < 0 \/ part_index.value >= number_of_parts)
      \/ number_of_parts = 0
      \/ \A i \in 1..number_of_parts : ~SatisfiesCriterion(i))
  => tsk_result = NoPart

\* C15's case: a start_offset and a location "/p<N>" were given for a volume
\* with parts, an allocated one among them, and no part is at that offset
\* or is the N-th allocated one.
C15_Witness ==
  /\ tsk_pc = "returned"
  /\ tsk_path_spec.start_offset.given
  /\ ~tsk_path_spec.part_index.given
  /\ LocationNumber >= 1
  /\ Len(tsk_volume.parts) = MaxParts
  /\ \E i \in 1..MaxParts : TSKVsPartIsAllocated(tsk_volume.parts[i])
  /\ \A i \in 1..MaxParts : ~SatisfiesCriterion(i)
  /\ tsk_result = NoPart

\* C20: for a path specification with nothing but a location "/p<N>",
\* N >= 1, GetTSKVsPartByPathSpec returns the N-th allocated part of the
\* list, with partition index N - 1, and (None, None) when the volume has
\* fewer than N allocated parts.
C20_LocationSelectsNthAllocated ==
  (/\ tsk_pc = "returned"
   /\ ~tsk_path_spec.part_index.given
   /\ ~tsk_path_spec.start_offset.given
   /\ LocationNumber >= 1)
  => IF \E i \in 1..Len(tsk_volume.parts) :
          TSKVsPartIsAllocated(tsk_volume.parts[i]) /\ AllocatedBefore(i) = LocationNumber - 1
       THEN /\ tsk_result.tsk_vs_part \in 1..Len(tsk_volume.parts)
            /\ TSKVsPartIsAllocated(tsk_volume.parts[tsk_result.tsk_vs_part])
            /\ AllocatedBefore(tsk_result.tsk_vs_part) = LocationNumber - 1
            /\ tsk_result.partition_index = SomeInt(LocationNumber - 1)
       ELSE tsk_result = NoPart

\* C20's case: "/p2" was asked for and the second allocated part is the
\* third part of the volume, after a part that is not allocated.
C20_Witness ==
  /\ tsk_pc = "returned"
  /\ tsk_path_spec = [location |-> SomeLocation(SlashP(2)), part_index |-> NoInt, start_offset |-> NoInt]
  /\ Len(tsk_volume.parts) = 3
  /\ ~TSKVsPartIsAllocated(tsk_volume.parts[2])
  /\ tsk_result = [tsk_vs_part |-> 3, partition_index |-> SomeInt(1)]

\* C21: the partition index returned with a part is the number of
\* allocated parts before it in the volume list when the part is allocated,
\* and None when it is not, whether the part was found by its location, its
\* part_index or its start_offset.
C21_PartitionIndexWhateverTheSelection ==
  (tsk_pc = "returned" /\ tsk_result.tsk_vs_part # 0) =>
    tsk_result.partition_index =
      IF TSKVsPartIsAllocated(tsk_volume.parts[tsk_result.tsk_vs_part])
        THEN SomeInt(AllocatedBefore(tsk_result.tsk_vs_part))
        ELSE NoInt

\* C17: for a FindSpec with a literal location of n >= 1 segments and an
\* entry that passes the entry type and allocation checks, Matches(entry, n)
\* is true iff the name is segment n (case sensitive) or the lower-cased
\* name is the lower-cased segment n (otherwise), with segment n as the
\* constructor was given it: on the first call and on every later one.  The
\* segment count stays what it was.
C17_NameEqualsLastSegment ==
  LET n == Len(constructed.location_segments.list) IN
  /\ (/\ m_call.called
      /\ constructed.is_regex = "False"
      /\ n >= 1
      /\ m_call.search_depth = n
      /\ PassesTypeAndAllocation)
     => LET segment == constructed.location_segments.list[n].text
            name == m_call.file_entry.name
        IN m_call.result = IF constructed.is_case_sensitive
                             THEN name = segment
                             ELSE Lower(name) = Lower(segment)
  /\ (m_pc = "initialized" /\ constructed.is_regex = "False") =>
       /\ find_spec.number_of_location_segments = n
       /\ Len(find_spec.location_segments.list) = n

\* C17's case: a case-insensitive FindSpec whose last segment was written
\* "A" and is by now stored as "a" is asked again, about an entry "A".
C17_Witness ==
  LET n == Len(constructed.location_segments.list) IN
  /\ m_call.called
  /\ constructed.is_regex = "False"
  /\ ~constructed.is_case_sensitive
  /\ n >= 1
  /\ m_call.search_depth = n
  /\ constructed.location_segments.list[n].text = ChrUpperA
  /\ m_call.stored.text = ChrA
  /\ m_call.file_entry.name = ChrUpperA
  /\ PassesTypeAndAllocation
  /\ m_call.result

\* C18: the entry type check of Matches passes, with file_entry_types
\* given, iff the entry is of one of the kinds in it, and with
\* file_entry_types None for every entry: when the location check and the
\* allocation check pass, Matches returns just that.
C18_TypeCheckPassesWithoutFilter ==
  (/\ m_call.called
   /\ CheckLocation(find_spec, m_call.file_entry, m_call.search_depth).passes
   /\ CheckIsAllocated(find_spec, m_call.file_entry))
  => m_call.result =
       IF find_spec.file_entry_types.given
         THEN m_call.file_entry.types \cap find_spec.file_entry_types.types # {}
         ELSE TRUE

\* C19: for a FindSpec whose location has no segments, Matches(entry, 0) is
\* true for an entry that passes the entry type and allocation checks,
\* whatever the name of the entry.
C19_NoNameComparisonAtDepthZero ==
  (/\ m_call.called
   /\ constructed.location_segments.given
   /\ Len(constructed.location_segments.list) = 0
   /\ m_call.search_depth = 0
   /\ PassesTypeAndAllocation)
  => m_call.result

=============================================================================
